---- MODULE Spec2Model ----
(***************************************************************************)
(* Multi-stock GRU demo: the DataLoader of data-loader.js (CSV rows ->     *)
(* aligned per-symbol series -> sliding-window samples -> chronological    *)
(* train/test split) and the evaluation arithmetic of gru.js               *)
(* (computePerStockAccuracy, evaluateTestSet).                             *)
(*                                                                         *)
(* Conventions.  JavaScript arrays are 0-based, TLA+ sequences 1-based:    *)
(* At(a, i) reads a[i].  A ticker is modelled by its rank among the        *)
(* tickers in UTF-16 code-unit order (1 < 2 < ...), 0 is the empty string. *)
(* A date string is [day, fmt]: the calendar day it denotes and how it is  *)
(* written ("iso" yyyy-mm-dd, "us" mm/dd/yyyy, "dmy" dd/mm/yyyy with       *)
(* dd > 12, "empty").  Numbers are integers; NaN is a value of its own.    *)
(* Quotients (normalised features, means) are exact pairs <<num, den>>.    *)
(***************************************************************************)
EXTENDS Integers, Sequences, FiniteSets, TLC

(***************************************************************************)
(* Bounds of the model.                                                    *)
(***************************************************************************)
MaxDay == 3
MaxPrice == 2
MaxRows == 3
MaxFieldRows == 2
MaxSeqLen == 2
MaxHorizon == 2
MaxPrepares == 2
MaxSamples == 2
MaxCells == 4

NaN == -1
Micro == 1000000

NULL == [null |-> TRUE]
UNDEFINED == [undefined |-> TRUE]

Tickers == {1, 2}
Prices == 1..MaxPrice
Days == 1..MaxDay

At(a, i) == a[i + 1]

Range(f) == {f[x] : x \in DOMAIN f}

RECURSIVE SumSeq(_)
SumSeq(s) == IF s = <<>> THEN 0 ELSE Head(s) + SumSeq(Tail(s))

RECURSIVE Concat(_)
Concat(ss) == IF ss = <<>> THEN <<>> ELSE Head(ss) \o Concat(Tail(ss))

MinOf(S) == CHOOSE m \in S : \A x \in S : m <= x
MaxOf(S) == CHOOSE m \in S : \A x \in S : m >= x

(***************************************************************************)
(* loadFromCSVText                                                         *)
(***************************************************************************)

\* rows kept by the filter: non-empty Date and Symbol, numeric Open and Close
ValidRow(r) ==
    /\ r.Date.fmt # "empty"
    /\ r.Symbol # 0
    /\ r.Open # NaN
    /\ r.Close # NaN

\* new Date(str): the UTC calendar day of the parsed instant, or NaN (Invalid
\* Date).  A date-only ISO string is read as UTC midnight; a slash-separated
\* m/d/y string is read as local midnight, which is the previous UTC day on a
\* host east of Greenwich (tz = 1); d/m/y with d > 12 does not parse, with
\* slashes or with the dashes the fallback substitutes.
ParseDate(d, tz) ==
    CASE d.fmt = "iso" -> d.day
      [] d.fmt = "us"  -> d.day - tz
      [] OTHER         -> NaN

\* r.Date.replace(/\./g,'-').replace(/\//g,'-').trim(): the same day with the
\* separators turned into dashes.  Only a string whose first parse failed gets
\* here, "dmy" among the formats above, and d-m-y with d > 12 parses no better
\* than d/m/y: the format tag stands for both spellings.
Dashed(d) == [day |-> d.day, fmt |-> d.fmt]

\* r.Date after the forEach: toISOString().slice(0,10) of the first parse that
\* succeeds, else the string as it was
NormalizeDate(d, tz) ==
    LET p1 == ParseDate(d, tz)
        p2 == ParseDate(Dashed(d), tz)
    IN  IF p1 # NaN THEN [day |-> p1, fmt |-> "iso"]
        ELSE IF p2 # NaN THEN [day |-> p2, fmt |-> "iso"]
        ELSE d

NormalizeRows(rows, tz) ==
    [k \in 1..Len(rows) |-> [rows[k] EXCEPT !.Date = NormalizeDate(rows[k].Date, tz)]]

\* Array.from(new Set(...)): the distinct values in order of first appearance
RECURSIVE Distinct(_)
Distinct(s) ==
    IF s = <<>> THEN <<>>
    ELSE LET front == Distinct(SubSeq(s, 1, Len(s) - 1))
             x == s[Len(s)]
         IN  IF x \in Range(front) THEN front ELSE Append(front, x)

\* Array.prototype.sort() without a comparator, on tickers
RECURSIVE SortSymbols(_)
SortSymbols(s) ==
    IF s = <<>> THEN <<>>
    ELSE LET m == MinOf(Range(s))
         IN  <<m>> \o SortSymbols(SelectSeq(s, LAMBDA x : x # m))

\* (a, b) => new Date(a) - new Date(b); a NaN result counts as +0 in sort
DateCompare(a, b) ==
    LET ta == ParseDate(a, 0)
        tb == ParseDate(b, 0)
    IN  IF ta = NaN \/ tb = NaN THEN 0 ELSE ta - tb

\* a stable sort of s under DateCompare (insertion from the left)
RECURSIVE StableSort(_)
InsertSorted(sorted, x) ==
    LET later == {k \in 1..Len(sorted) : DateCompare(sorted[k], x) > 0}
        pos == IF later = {} THEN Len(sorted) + 1 ELSE MinOf(later)
    IN  SubSeq(sorted, 1, pos - 1) \o <<x>> \o SubSeq(sorted, pos, Len(sorted))
StableSort(s) ==
    IF s = <<>> THEN <<>>
    ELSE InsertSorted(StableSort(SubSeq(s, 1, Len(s) - 1)), s[Len(s)])

\* ECMAScript: the comparator is consistent iff it induces a strict weak order
ConsistentComparator(s) ==
    \A a, b, c \in Range(s) :
        (DateCompare(a, b) = 0 /\ DateCompare(b, c) = 0) => DateCompare(a, c) = 0

Reorderings(s) ==
    {[k \in 1..Len(s) |-> s[p[k]]] :
        p \in {q \in [1..Len(s) -> 1..Len(s)] : Range(q) = 1..Len(s)}}

\* the orders Array.prototype.sort may leave the date axis in: the stable sorted
\* order, or (comparator not consistent) an implementation-defined permutation
SortedDates(s) ==
    IF ConsistentComparator(s) THEN {StableSort(s)} ELSE Reorderings(s)

\* lookup.get(`${sym}||${date}`): the last surviving row with that key
Lookup(rows, sym, date) ==
    LET hits == {k \in 1..Len(rows) : rows[k].Symbol = sym /\ rows[k].Date = date}
    IN  IF hits = {} THEN UNDEFINED
        ELSE [open |-> rows[MaxOf(hits)].Open, close |-> rows[MaxOf(hits)].Close]

PivotSeries(rows, syms, dts) ==
    [sym \in Range(syms) |->
        [k \in 1..Len(dts) |->
            LET v == Lookup(rows, sym, dts[k])
            IN  IF v # UNDEFINED
                THEN [date |-> dts[k], open |-> v.open, close |-> v.close]
                ELSE [date |-> dts[k], open |-> NaN, close |-> NaN]]]

\* per-symbol min/max in millionths; a zero range is widened by 1e-6
ComputeNormalizers(series, syms) ==
    [sym \in Range(syms) |->
        LET opens == {e.open : e \in {x \in Range(series[sym]) : x.open # NaN}}
            closes == {e.close : e \in {x \in Range(series[sym]) : x.close # NaN}}
            openMin == MinOf(opens)
            openMax == MaxOf(opens)
            closeMin == MinOf(closes)
            closeMax == MaxOf(closes)
        IN  [openMin |-> openMin * Micro,
             openMax |-> IF openMax = openMin THEN openMin * Micro + 1
                         ELSE openMax * Micro,
             closeMin |-> closeMin * Micro,
             closeMax |-> IF closeMax = closeMin THEN closeMin * Micro + 1
                          ELSE closeMax * Micro]]

\* everything loadFromCSVText computes from the parsed rows, for each order the
\* sort may produce; the empty set when no row survives the filter.  Of
\* this.raw = { rows, parsedCount } only parsedCount is kept: nothing reads
\* raw.rows again, prepareDataset only tests this.raw for null.
LoadResults(parsed, tz) ==
    LET rows == NormalizeRows(SelectSeq(parsed, ValidRow), tz)
        syms == SortSymbols(Distinct([k \in 1..Len(rows) |-> rows[k].Symbol]))
        dateSet == Distinct([k \in 1..Len(rows) |-> rows[k].Date])
    IN  IF rows = <<>> THEN {}
        ELSE {[symbols |-> syms,
               dates |-> dts,
               perSymbolSeries |-> PivotSeries(rows, syms, dts),
               normalizers |-> ComputeNormalizers(PivotSeries(rows, syms, dts), syms),
               raw |-> [parsedCount |-> Len(rows)]] :
                  dts \in SortedDates(dateSet)}

(***************************************************************************)
(* prepareDataset                                                          *)
(***************************************************************************)

\* (variant: the check of the future closes is left out)
WindowBadNoFuture(series, syms, i, seq, h) ==
    \E s \in 0..(Len(syms) - 1) : \E t \in (i - seq + 1)..i :
        LET v == At(series[At(syms, s)], t)
        IN  v.open = NaN \/ v.close = NaN

\* (variant: no window is ever rejected for a missing value)
WindowNeverBad(series, syms, i, seq, h) == FALSE

\* the NaN check of one anchor: some symbol misses an open or close in the
\* window seqStart..i, or a close at i+1..i+h
WindowBad(series, syms, i, seq, h) ==
    \E s \in 0..(Len(syms) - 1) :
        \/ \E t \in (i - seq + 1)..i :
              LET v == At(series[At(syms, s)], t)
              IN  v.open = NaN \/ v.close = NaN
        \/ \E offset \in 1..h :
              LET v2 == At(series[At(syms, s)], i + offset)
              IN  v2.close = NaN

\* (variant: the last anchor with a full future is skipped too)
OutOfRangeEarly(i, D, seq, h) == (i - seq + 1 < 0) \/ (i + h >= D - 1)

\* the anchors the loop skips for want of history or future
OutOfRange(i, D, seq, h) == (i - seq + 1 < 0) \/ (i + h >= D)

\* sampleInput: seq rows of S*2 min-max normalised features (open, close per symbol)
SampleInput(series, norms, syms, i, seq) ==
    [tt \in 1..seq |->
        LET t == i - seq + tt
        IN  Concat([ss \in 1..Len(syms) |->
                LET v == At(series[syms[ss]], t)
                    norm == norms[syms[ss]]
                    on == <<v.open * Micro - norm.openMin, norm.openMax - norm.openMin>>
                    cn == <<v.close * Micro - norm.closeMin, norm.closeMax - norm.closeMin>>
                IN  <<on, cn>>])]

\* one label: Close(i + offset) > Close(i) ? 1 : 0
Label(futureClose, closeD) == IF futureClose > closeD THEN 1 ELSE 0

\* (variant: offset-major, the labels of one offset for all symbols together)
SampleOutputOffsetMajor(series, syms, i, h) ==
    Concat([offset \in 1..h |->
        [ss \in 1..Len(syms) |->
            Label(At(series[syms[ss]], i + offset).close, At(series[syms[ss]], i).close)]])

\* sampleOutput: for each symbol in order, the labels of offsets 1..h
SampleOutput(series, syms, i, h) ==
    Concat([ss \in 1..Len(syms) |->
        LET closeD == At(series[syms[ss]], i).close
        IN  [offset \in 1..h |->
                Label(At(series[syms[ss]], i + offset).close, closeD)]])

\* the for loop over the date axis: the anchors that yield a sample, in order
RECURSIVE AnchorLoop(_, _, _, _, _, _)
AnchorLoop(series, syms, D, seq, h, i) ==
    IF i >= D THEN <<>>
    ELSE (IF OutOfRange(i, D, seq, h) THEN <<>>
          ELSE IF WindowBad(series, syms, i, seq, h) THEN <<>>
          ELSE <<i>>)
         \o AnchorLoop(series, syms, D, seq, h, i + 1)

\* (variant: Math.floor)
MathFloor(num, den) == num \div den

\* Math.round(x) for x = num/den >= 0: halves round up
MathRound(num, den) == (2 * num + den) \div (2 * den)

TrainCount(trainSplitPercent, total) == MathRound(trainSplitPercent * total, 100)

\* tensor.slice along the first axis: size rows from begin
SliceRows(data, begin, size) == SubSeq(data, begin + 1, begin + size)

(***************************************************************************)
(* State                                                                   *)
(***************************************************************************)
VARIABLES
    \* DataLoader fields
    sequenceLength, forecastHorizon, raw, symbols, dates, perSymbolSeries,
    normalizers, X_train, y_train, X_test, y_test, trainIndices, testIndices,
    sampleDates, sampleDatesTrain, sampleDatesTest,
    \* the tf engine: ids of the tensors not yet disposed, and the last id given
    tfLive, tfNext,
    \* GRUModel.model
    model,
    \* the caller's side: the parsed rows of the chosen CSV, the arguments of an
    \* evaluation (network output P, truth T, symbol count S, horizon h), and the
    \* outcome of the last call (what it returned or threw)
    csvRows, evalIn, ret,
    \* history of the calls on the loader: whether a load has succeeded, and a
    \* dataset has been prepared, since construction or the last dispose()
    history,
    \* app.js: the module variables preparedMeta, tensors and evalResults, the
    \* text of the last setProgress, and where the prepare handler stands
    \* ("idle", or "prepare" once its await of the load has resumed)
    preparedMeta, tensors, evalResults, progress, pc

seriesVars == <<raw, symbols, dates, perSymbolSeries, normalizers>>
datasetVars == <<X_train, y_train, X_test, y_test, trainIndices, testIndices,
                 sampleDates, sampleDatesTrain, sampleDatesTest>>
configVars == <<sequenceLength, forecastHorizon>>
loaderVars == <<configVars, seriesVars, datasetVars>>
tfVars == <<tfLive, tfNext>>
inputVars == <<csvRows, evalIn>>
appVars == <<preparedMeta, tensors, evalResults, progress, pc>>
vars == <<loaderVars, tfVars, model, inputVars, ret, history, appVars>>

\* a call's outcome: the operation, its argument, and what it returned or threw
Threw(op, arg, msg) == [op |-> op, arg |-> arg, ok |-> FALSE, value |-> msg]
Returned(op, arg, v) == [op |-> op, arg |-> arg, ok |-> TRUE, value |-> v]

\* the history follows from the calls' outcomes alone, not from the loader's fields
Observe ==
    history' =
        IF ret'.op = "loadFromCSVText" /\ ret'.ok
        THEN [history EXCEPT !.loaded = TRUE]
        ELSE IF ret'.op = "prepareDataset" /\ ret'.ok
        THEN [history EXCEPT !.prepared = TRUE]
        ELSE IF ret'.op = "dispose"
        THEN [loaded |-> FALSE, prepared |-> FALSE]
        ELSE history

\* app.js at module load: nothing prepared, nothing evaluated
AppStarted ==
    /\ preparedMeta = NULL
    /\ tensors = NULL
    /\ evalResults = NULL
    /\ progress = ""
    /\ pc = "idle"

\* constructor({ sequenceLength, forecastHorizon })
LoaderConstructed ==
    /\ history = [loaded |-> FALSE, prepared |-> FALSE]
    /\ raw = NULL
    /\ symbols = <<>>
    /\ dates = <<>>
    /\ perSymbolSeries = <<>>
    /\ normalizers = <<>>
    /\ X_train = NULL /\ y_train = NULL /\ X_test = NULL /\ y_test = NULL
    /\ trainIndices = NULL
    /\ testIndices = NULL
    /\ sampleDates = UNDEFINED
    /\ sampleDatesTrain = UNDEFINED
    /\ sampleDatesTest = UNDEFINED

(***************************************************************************)
(* DataLoader operations                                                   *)
(***************************************************************************)

\* the host's zone: 0 at or west of Greenwich, 1 east of it
Zones == {0, 1}

LoadFromCSVText(parsed) ==
    \E tz \in Zones : \E results \in {LoadResults(parsed, tz)} :
        IF results = {}
        THEN /\ ret' = Threw("loadFromCSVText", parsed, "No valid rows in CSV")
             /\ UNCHANGED <<loaderVars, tfVars, model, inputVars>>
        ELSE \E r \in results :
                /\ symbols' = r.symbols
                /\ dates' = r.dates
                /\ perSymbolSeries' = r.perSymbolSeries
                /\ normalizers' = r.normalizers
                /\ raw' = r.raw
                /\ ret' = Returned("loadFromCSVText", parsed,
                                   [symbols |-> r.symbols, dates |-> r.dates])
                /\ UNCHANGED <<configVars, datasetVars, tfVars, model, inputVars>>

NewTensor(id, shape, data) == [id |-> id, shape |-> shape, data |-> data]

PrepareDataset(trainSplitPercent) ==
    IF raw = NULL
    THEN /\ ret' = Threw("prepareDataset", trainSplitPercent, "No data loaded")
         /\ UNCHANGED <<loaderVars, tfVars, model, inputVars>>
    ELSE
      LET S == Len(symbols)
          D == Len(dates)
          seq == sequenceLength
          h == forecastHorizon
          anchors == AnchorLoop(perSymbolSeries, symbols, D, seq, h, 0)
          inputSamples == [k \in 1..Len(anchors) |->
              SampleInput(perSymbolSeries, normalizers, symbols, anchors[k], seq)]
          outputSamples == [k \in 1..Len(anchors) |->
              SampleOutput(perSymbolSeries, symbols, anchors[k], h)]
          anchorDates == [k \in 1..Len(anchors) |-> At(dates, anchors[k])]
          total == Len(inputSamples)
          trainCount == TrainCount(trainSplitPercent, total)
          X == NewTensor(tfNext + 1, <<total, seq, S * 2>>, inputSamples)
          y == NewTensor(tfNext + 2, <<total, S * h>>, outputSamples)
      IN  IF total = 0
          THEN /\ ret' = Threw("prepareDataset", trainSplitPercent,
                            "No valid sliding-window samples")
               /\ UNCHANGED <<loaderVars, tfVars, model, inputVars>>
          ELSE /\ X_train' = NewTensor(tfNext + 3, <<trainCount, seq, S * 2>>,
                                       SliceRows(X.data, 0, trainCount))
               /\ X_test' = NewTensor(tfNext + 4, <<total - trainCount, seq, S * 2>>,
                                      SliceRows(X.data, trainCount, total - trainCount))
               /\ y_train' = NewTensor(tfNext + 5, <<trainCount, S * h>>,
                                       SliceRows(y.data, 0, trainCount))
               /\ y_test' = NewTensor(tfNext + 6, <<total - trainCount, S * h>>,
                                      SliceRows(y.data, trainCount, total - trainCount))
               /\ trainIndices' = [start |-> 0, count |-> trainCount]
               /\ testIndices' = [start |-> trainCount, count |-> total - trainCount]
               /\ sampleDates' = anchorDates
               /\ sampleDatesTrain' = SubSeq(anchorDates, 1, trainCount)
               /\ sampleDatesTest' = SubSeq(anchorDates, trainCount + 1, total)
               /\ tfLive' = tfLive \cup (tfNext + 1)..(tfNext + 6)
               /\ tfNext' = tfNext + 6
               /\ ret' = Returned("prepareDataset", trainSplitPercent,
                             [samples |-> total,
                              trainSamples |-> trainCount,
                              testSamples |-> total - trainCount,
                              sequenceLength |-> seq,
                              featuresPerStep |-> S * 2,
                              outputDim |-> S * h,
                              symbols |-> symbols])
               /\ UNCHANGED <<configVars, seriesVars, model, inputVars>>

GetTensors ==
    /\ ret' = IF X_train = NULL
              THEN Threw("getTensors", UNDEFINED, "Dataset not prepared yet")
              ELSE Returned("getTensors", UNDEFINED,
                            [X_train |-> X_train, y_train |-> y_train,
                             X_test |-> X_test, y_test |-> y_test,
                             symbols |-> symbols,
                             sampleDatesTest |-> sampleDatesTest])
    /\ UNCHANGED <<loaderVars, tfVars, model, inputVars>>

\* the ids of the stored tensors, those dispose() releases
StoredIds ==
    LET stored == <<X_train, y_train, X_test, y_test>>
    IN  {stored[k].id : k \in {j \in 1..4 : stored[j] # NULL}}

\* a dispose() that releases the tensors but keeps the loaded data
DisposeKeepsRaw ==
    /\ tfLive' = tfLive \ StoredIds
    /\ X_train' = NULL /\ y_train' = NULL /\ X_test' = NULL /\ y_test' = NULL
    /\ ret' = Returned("dispose", UNDEFINED, UNDEFINED)
    /\ UNCHANGED <<configVars, seriesVars,
                   trainIndices, testIndices, sampleDates, sampleDatesTrain,
                   sampleDatesTest, tfNext, model, inputVars>>

Dispose ==
    /\ tfLive' = tfLive \ StoredIds
    /\ X_train' = NULL /\ y_train' = NULL /\ X_test' = NULL /\ y_test' = NULL
    /\ raw' = NULL
    /\ ret' = Returned("dispose", UNDEFINED, UNDEFINED)
    /\ UNCHANGED <<configVars, symbols, dates, perSymbolSeries, normalizers,
                   trainIndices, testIndices, sampleDates, sampleDatesTrain,
                   sampleDatesTest, tfNext, model, inputVars>>

(***************************************************************************)
(* GRUModel: predict, computePerStockAccuracy, evaluateTestSet             *)
(*                                                                         *)
(* A 2-d tensor is [shape |-> <<rows, cols>>, data |-> the rows]; its      *)
(* buffer is the rows laid end to end.  Probabilities are in tenths.       *)
(***************************************************************************)
Threshold == 5

Size(t) == t.shape[1] * t.shape[2]
Flat(t) == Concat(t.data)

\* a threshold that rounds exactly 0.5 up
BinariseAtLeast(prob) == IF prob >= Threshold THEN 1 ELSE 0

\* y_pred.greater(tf.scalar(0.5)).toInt(), elementwise on the buffer
Binarise(prob) == IF prob > Threshold THEN 1 ELSE 0

\* x.reshape([a, b, c]) throws unless the sizes agree
ReshapeThrows(t, a, b, c) == Size(t) # a * b * c

\* element [n, s, t] of a buffer read as [samples, S, h]
At3(flat, S, h, n, s, t) == At(flat, n * S * h + s * h + t)

\* preds3.equal(truths3): 1/0 per sample, stock and horizon
Correct(predsBin, truths, S, h, n, s, t) ==
    IF At3(predsBin, S, h, n, s, t) = At3(truths, S, h, n, s, t) THEN 1 ELSE 0

\* per-stock means taken over the first horizon only
PerStockMeansFirstHorizon(predsBin, truths, samples, S, h) ==
    LET hits(s) == SumSeq([k \in 1..samples |->
                      Correct(predsBin, truths, S, h, k - 1, s, 0)])
        perStock == [ss \in 1..S |-> <<hits(ss - 1), samples>>]
        all == SumSeq([k \in 1..(samples * S * h) |->
                      IF At(predsBin, k - 1) = At(truths, k - 1) THEN 1 ELSE 0])
    IN  [perStockAcc |-> perStock, overallAcc |-> <<all, samples * S * h>>]

\* the body of computePerStockAccuracy once both reshapes succeeded:
\* correct.mean([0,2]) and correct.mean(), each mean as <<sum, count>>
PerStockMeans(predsBin, truths, samples, S, h) ==
    LET hits(s) == SumSeq([k \in 1..(samples * h) |->
                      Correct(predsBin, truths, S, h,
                              (k - 1) \div h, s, (k - 1) % h)])
        perStock == [ss \in 1..S |-> <<hits(ss - 1), samples * h>>]
        all == SumSeq([k \in 1..(samples * S * h) |->
                      IF At(predsBin, k - 1) = At(truths, k - 1) THEN 1 ELSE 0])
    IN  [perStockAcc |-> perStock, overallAcc |-> <<all, samples * S * h>>]

ComputePerStockAccuracy(yTrue, yPred, S, h) ==
    LET samples == yPred.shape[1]
        predsBin == [k \in 1..Size(yPred) |-> Binarise(Flat(yPred)[k])]
    IN  IF ReshapeThrows(yPred, samples, S, h) \/ ReshapeThrows(yTrue, samples, S, h)
        THEN [ok |-> FALSE]
        ELSE [ok |-> TRUE] @@ PerStockMeans(predsBin, Flat(yTrue), samples, S, h)

\* a majority rule that counts exactly one half as correct
MajorityAtLeast(sum, h) == IF 2 * sum >= h THEN 1 ELSE 0

\* correctPerSamplePerStock.greater(0.5): the mean <<sum, h>> exceeds one half
Majority(sum, h) == IF 2 * sum > h THEN 1 ELSE 0

\* timelineBinary.transpose([1,0]).arraySync(): one row per stock
Timeline(predsBin, truths, samples, S, h) ==
    [ss \in 1..S |-> [nn \in 1..samples |->
        Majority(SumSeq([tt \in 1..h |->
                    Correct(predsBin, truths, S, h, nn - 1, ss - 1, tt - 1)]), h)]]

\* x3.arraySync(): the buffer as nested arrays [samples][S][h]
Nested3(flat, samples, S, h) ==
    [nn \in 1..samples |-> [ss \in 1..S |-> [tt \in 1..h |->
        At3(flat, S, h, nn - 1, ss - 1, tt - 1)]]]

\* evaluateTestSet given the predictions preds = this.predict(X_test)
EvaluateResult(preds, yTest, S, horizon) ==
    LET samples == preds.shape[1]
        predsBin == [k \in 1..Size(preds) |-> Binarise(Flat(preds)[k])]
        truths == Flat(yTest)
        acc == ComputePerStockAccuracy(yTest, preds, S, horizon)
    IN  IF ReshapeThrows(preds, samples, S, horizon)
           \/ ReshapeThrows(yTest, samples, S, horizon)
           \/ ~acc.ok
        THEN [ok |-> FALSE]
        ELSE [ok |-> TRUE,
              perStockAcc |-> acc.perStockAcc,
              overallAcc |-> acc.overallAcc,
              perStockTimeline |-> Timeline(predsBin, truths, samples, S, horizon),
              predArr |-> Nested3(predsBin, samples, S, horizon),
              truthArr |-> Nested3(truths, samples, S, horizon)]

BuildModel ==
    /\ model' = [built |-> TRUE]
    /\ ret' = Returned("buildModel", UNDEFINED, UNDEFINED)
    /\ UNCHANGED <<loaderVars, tfVars, inputVars>>

ModelDispose ==
    /\ model' = NULL
    /\ ret' = Returned("GRUModel.dispose", UNDEFINED, UNDEFINED)
    /\ UNCHANGED <<loaderVars, tfVars, inputVars>>

\* predict(X): evalIn.P stands for what the network outputs on X
Predict ==
    /\ ret' = IF model = NULL THEN Threw("predict", UNDEFINED, "Model not built.")
              ELSE Returned("predict", UNDEFINED, evalIn.P)
    /\ UNCHANGED <<loaderVars, tfVars, model, inputVars>>

EvaluateTestSet ==
    /\ ret' = IF model = NULL THEN Threw("evaluateTestSet", evalIn, "Model not built.")
              ELSE LET r == EvaluateResult(evalIn.P, evalIn.T, evalIn.S, evalIn.h)
                   IN  IF r.ok THEN Returned("evaluateTestSet", evalIn, r)
                       ELSE Threw("evaluateTestSet", evalIn, "reshape: sizes differ")
    /\ UNCHANGED <<loaderVars, tfVars, model, inputVars>>

(***************************************************************************)
(* Inputs                                                                  *)
(***************************************************************************)

Iso(d) == [day |-> d, fmt |-> "iso"]
EmptyDate == [day |-> 0, fmt |-> "empty"]
Row(date, sym, open, close) ==
    [Date |-> date, Symbol |-> sym, Open |-> open, Close |-> close]

\* a CSV with at most one row per (ticker, day), listed day by day with ISO
\* dates: g[s][d] is the close, NaN where the file has no row
GridRows(g) ==
    LET cells == [k \in 1..(2 * MaxDay) |->
                    [d |-> ((k - 1) \div 2) + 1, s |-> ((k - 1) % 2) + 1]]
        present == SelectSeq(cells, LAMBDA c : g[c.s][c.d] # NaN)
    IN  [k \in 1..Len(present) |->
            Row(Iso(present[k].d), present[k].s,
                MaxPrice + 1 - g[present[k].s][present[k].d],
                g[present[k].s][present[k].d])]

GridFiles == {GridRows(g) : g \in [Tickers -> [Days -> Prices \cup {NaN}]]}

\* short files of arbitrary rows: any day in any spelling and any order for one
\* ticker, and rows with a second ticker, a repeated key, or a missing field
DateRowSet == {Row([day |-> d, fmt |-> f], 1, 1, 1) : d \in Days, f \in {"iso", "dmy"}}
                  \cup {Row([day |-> MaxDay, fmt |-> "us"], 1, 1, 1)}
DateFiles == UNION {{f \in [1..n -> DateRowSet] : Cardinality(Range(f)) = n} :
                      n \in 0..MaxRows}
FieldRowSet == {Row(Iso(1), 1, 1, 1), Row(Iso(1), 1, 2, 2), Row(Iso(1), 2, 1, 1),
                Row(Iso(2), 1, 1, 2), Row(Iso(1), 0, 1, 1), Row(Iso(1), 1, NaN, 1),
                Row(Iso(1), 1, 1, NaN), Row(EmptyDate, 1, 1, 1)}
FieldFiles == UNION {[1..n -> FieldRowSet] : n \in 1..MaxFieldRows}
RowFiles == DateFiles \cup FieldFiles

\* the worked example: tickers A, B over d0..d5, no missing value
ScenarioCloses == <<(<<10, 11, 9, 12, 13, 14>>), (<<5, 5, 6, 6, 7, 8>>)>>
ScenarioFile ==
    [k \in 1..12 |->
        LET d == ((k - 1) \div 2) + 1
            s == ((k - 1) % 2) + 1
        IN  Row(Iso(d), s, ScenarioCloses[s][d], ScenarioCloses[s][d])]

Files == GridFiles \cup RowFiles \cup {ScenarioFile}

SplitPercents == {0, 25, 75, 100}

\* evaluation inputs: every P over {0.4, 0.5, 0.6} and binary T of the declared
\* shape [N, S*h] with at most MaxCells entries, and constant matrices of every
\* pair of small shapes, agreeing with the declared S and h or not
Probs == {Threshold - 1, Threshold, Threshold + 1}
Matrices(n, c, vals) ==
    {[shape |-> <<n, c>>, data |-> d] : d \in [1..n -> [1..c -> vals]]}
Shapes == {sh \in (1..MaxSamples) \X (1..MaxCells) : sh[1] * sh[2] <= MaxCells}
Dims == {d \in (1..MaxSamples) \X (1..2) \X (1..MaxHorizon) :
            d[1] * d[2] * d[3] <= MaxCells}
MatchedInputs ==
    UNION {{[P |-> P, T |-> T, S |-> d[2], h |-> d[3]] :
                P \in Matrices(d[1], d[2] * d[3], Probs),
                T \in Matrices(d[1], d[2] * d[3], {0, 1})} : d \in Dims}
ShapeInputs ==
    {[P |-> [shape |-> p, data |-> [n \in 1..p[1] |-> [c \in 1..p[2] |-> Threshold + 1]]],
      T |-> [shape |-> t, data |-> [n \in 1..t[1] |-> [c \in 1..t[2] |-> 1]]],
      S |-> S, h |-> h] :
        p \in Shapes, t \in Shapes, S \in 1..2, h \in 1..MaxHorizon}
EvalInputs == MatchedInputs \cup ShapeInputs

NoEvaluation == [P |-> [shape |-> <<1, 1>>, data |-> <<(<<Threshold + 1>>)>>],
                 T |-> [shape |-> <<1, 1>>, data |-> <<(<<1>>)>>],
                 S |-> 1, h |-> 1]

(***************************************************************************)
(* The loading and windowing pipeline on one CSV: a fresh loader, the file  *)
(* loaded, one dataset prepared.  (What a load or a prepareDataset computes *)
(* does not depend on an earlier dataset; SpecLife interleaves the calls.)  *)
(***************************************************************************)
Init ==
    /\ sequenceLength \in 1..MaxSeqLen
    /\ forecastHorizon \in 1..MaxHorizon
    /\ LoaderConstructed
    /\ AppStarted
    /\ tfLive = {}
    /\ tfNext = 0
    /\ model = NULL
    /\ csvRows \in Files
    /\ evalIn = NoEvaluation
    /\ ret = Returned("constructor", UNDEFINED, UNDEFINED)

Next ==
    \/ raw = NULL /\ LoadFromCSVText(csvRows) /\ Observe /\ UNCHANGED appVars
    \/ \E p \in SplitPercents : tfNext = 0 /\ PrepareDataset(p) /\ Observe /\ UNCHANGED appVars

Spec == Init /\ [][Next]_vars

(***************************************************************************)
(* The evaluator on one prediction batch                                   *)
(***************************************************************************)
InitEval ==
    /\ sequenceLength = 1
    /\ forecastHorizon = 1
    /\ LoaderConstructed
    /\ AppStarted
    /\ tfLive = {}
    /\ tfNext = 0
    /\ model = NULL
    /\ csvRows = <<>>
    /\ evalIn \in EvalInputs
    /\ ret = Returned("constructor", UNDEFINED, UNDEFINED)

NextEval ==
    \/ BuildModel /\ Observe /\ UNCHANGED appVars
    \/ EvaluateTestSet /\ Observe /\ UNCHANGED appVars

SpecEval == InitEval /\ [][NextEval]_vars

(***************************************************************************)
(* The life cycle: any sequence of calls on one loader and one model, over *)
(* a complete two-ticker file, a one-ticker file, a file too short for a   *)
(* window, and a file without a valid row                                  *)
(***************************************************************************)
OneTickerFile == [d \in 1..MaxDay |-> Row(Iso(d), 1, 1, 1 + (d % 2))]
ShortFile == <<Row(Iso(1), 1, 1, 1)>>
BlankFile == <<Row(EmptyDate, 1, 1, 1)>>
LifeFiles == {ScenarioFile, OneTickerFile, ShortFile, BlankFile}
LifeSplits == {50, 100}

InitLife ==
    /\ sequenceLength = 1
    /\ forecastHorizon = 1
    /\ LoaderConstructed
    /\ AppStarted
    /\ tfLive = {}
    /\ tfNext = 0
    /\ model = NULL
    /\ csvRows = <<>>
    /\ evalIn = NoEvaluation
    /\ ret = Returned("constructor", UNDEFINED, UNDEFINED)

\* tensors are allocated six to a prepared dataset
NextLife ==
    \/ \E f \in LifeFiles : LoadFromCSVText(f) /\ Observe /\ UNCHANGED appVars
    \/ \E p \in LifeSplits :
          /\ raw = NULL \/ tfNext < 6 * MaxPrepares
          /\ PrepareDataset(p)
          /\ Observe /\ UNCHANGED appVars
    \/ GetTensors /\ Observe /\ UNCHANGED appVars
    \/ Dispose /\ Observe /\ UNCHANGED appVars
    \/ BuildModel /\ Observe /\ UNCHANGED appVars
    \/ ModelDispose /\ Observe /\ UNCHANGED appVars
    \/ Predict /\ Observe /\ UNCHANGED appVars
    \/ EvaluateTestSet /\ Observe /\ UNCHANGED appVars

SpecLife == InitLife /\ [][NextLife]_vars

(***************************************************************************)
(* app.js: the click handlers of the prepare, train and predict buttons    *)
(* driving one loader and one model.  The app builds its loader with       *)
(* forecastHorizon 3 and passes the literal 3 to evaluateTestSet; here     *)
(* both are the loader's forecastHorizon.                                  *)
(***************************************************************************)
\* obj.field in JavaScript: undefined when the object has no such property
Get(obj, field) == IF field \in DOMAIN obj THEN obj[field] ELSE UNDEFINED

\* what the network may output on X_test: [rows, denseUnits] probabilities
OutputWidths == 1..2
Outputs(rows) ==
    UNION {Matrices(rows, c, {Threshold - 1, Threshold + 1}) : c \in OutputWidths}

\* renderPerStockTimelines(perStockTimeline, symbols, sampleDates) throws a
\* TypeError: for a symbol, perStockTimeline[s].map or sampleDates.map is
\* called on undefined
RenderPerStockTimelinesThrows(perStockTimeline, syms, labels) ==
    \E s \in 1..Len(syms) : s > Len(perStockTimeline) \/ labels = UNDEFINED

\* renderStockTimelineForSelected(symbols, perStockTimeline, perStockAcc,
\* sampleDates): the selected symbol is one of symbols (the first by default)
RenderStockTimelineForSelectedThrows(syms, perStockTimeline, labels) ==
    Len(syms) > 0 /\ (Len(perStockTimeline) = 0 \/ labels = UNDEFINED)

\* prepare handler up to its await: clearState() (not part of the sources:
\* it may or may not reset the three variables), then loadFromFile
PrepareClickLoad ==
    /\ pc = "idle"
    /\ tfNext < 6 * MaxPrepares
    /\ \E f \in LifeFiles, cleared \in BOOLEAN :
          /\ LoadFromCSVText(f)
          /\ Observe
          /\ preparedMeta' = IF cleared THEN NULL ELSE preparedMeta
          /\ tensors' = IF cleared THEN NULL ELSE tensors
          /\ evalResults' = IF cleared THEN NULL ELSE evalResults
          /\ pc' = IF ret'.ok THEN "prepare" ELSE "idle"
          /\ progress' = IF ret'.ok THEN "Preparing dataset..." ELSE "Error"

\* prepare handler after the await: prepareDataset, getTensors
PrepareClickPrepare ==
    /\ pc = "prepare"
    /\ \E p \in LifeSplits :
          /\ PrepareDataset(p)
          /\ Observe
          /\ pc' = "idle"
          /\ UNCHANGED evalResults
          /\ IF ret'.ok
             THEN /\ preparedMeta' = ret'.value
                  /\ tensors' = [X_train |-> X_train', y_train |-> y_train',
                                 X_test |-> X_test', y_test |-> y_test',
                                 symbols |-> symbols',
                                 sampleDatesTest |-> sampleDatesTest']
                  /\ progress' = "Dataset ready"
             ELSE /\ UNCHANGED <<preparedMeta, tensors>>
                  /\ progress' = "Error"

\* train handler: buildModel, then fit (which leaves the modelled state alone)
TrainClick ==
    /\ tensors # NULL
    /\ BuildModel
    /\ Observe
    /\ progress' = "Training finished"
    /\ UNCHANGED <<preparedMeta, tensors, evalResults, pc>>

\* predict handler: evaluateTestSet on the test tensors, then the renderers
\* with preparedMeta.sampleDatesTest as date labels; any throw lands in the
\* catch, which reports 'Error'
PredictClick ==
    /\ tensors # NULL
    /\ model # NULL
    /\ \E P \in Outputs(tensors.X_test.shape[1]) :
          LET call == [P |-> P, T |-> tensors.y_test,
                       S |-> Len(preparedMeta.symbols), h |-> forecastHorizon]
              res == EvaluateResult(P, tensors.y_test, Len(preparedMeta.symbols),
                                    forecastHorizon)
              labels == Get(preparedMeta, "sampleDatesTest")
          IN  IF ~res.ok
              THEN /\ ret' = Threw("evaluateTestSet", call, "reshape: sizes differ")
                   /\ progress' = "Error"
                   /\ UNCHANGED evalResults
              ELSE /\ ret' = Returned("evaluateTestSet", call, res)
                   /\ evalResults' = res
                   /\ progress' =
                        IF \/ RenderPerStockTimelinesThrows(res.perStockTimeline,
                                    preparedMeta.symbols, labels)
                           \/ RenderStockTimelineForSelectedThrows(
                                    preparedMeta.symbols, res.perStockTimeline, labels)
                        THEN "Error"
                        ELSE "Evaluation complete"
    /\ Observe
    /\ UNCHANGED <<loaderVars, tfVars, model, inputVars, preparedMeta, tensors, pc>>

InitApp ==
    /\ sequenceLength = 1
    /\ forecastHorizon = 1
    /\ LoaderConstructed
    /\ AppStarted
    /\ tfLive = {}
    /\ tfNext = 0
    /\ model = NULL
    /\ csvRows = <<>>
    /\ evalIn = NoEvaluation
    /\ ret = Returned("constructor", UNDEFINED, UNDEFINED)

NextApp ==
    \/ PrepareClickLoad
    \/ PrepareClickPrepare
    \/ TrainClick
    \/ PredictClick

SpecApp == InitApp /\ [][NextApp]_vars

(***************************************************************************)
(* Properties of the windowing pipeline (under Spec)                       *)
(***************************************************************************)

\* prepareDataset has just returned a dataset
Emitted == ret.op = "prepareDataset" /\ ret.ok

AllInputs == X_train.data \o X_test.data
AllLabels == y_train.data \o y_test.data

\* the position on the date axis of an anchor date (the axis holds no date twice)
AnchorIndex(date) == CHOOSE i \in 0..(Len(dates) - 1) : At(dates, i) = date
EmittedAnchors == [k \in 1..Len(sampleDates) |-> AnchorIndex(sampleDates[k])]

OpenAt(sym, t) == At(perSymbolSeries[sym], t).open
CloseAt(sym, t) == At(perSymbolSeries[sym], t).close

\* the s-th ticker (from 0) in sorted order
Ranked(s) == CHOOSE x \in Range(symbols) :
                 Cardinality({y \in Range(symbols) : y < x}) = s

\* C1: every emitted sample is complete (seq rows of 2S features, S*h labels)
\* and rests only on present values: for its anchor i, every symbol has an
\* open and a close at each t in [i-seq+1, i] and a close at each i+o, o in 1..h.
C1_NoMissingValueInSamples ==
    Emitted =>
        /\ Len(AllInputs) = Len(sampleDates)
        /\ Len(AllLabels) = Len(sampleDates)
        /\ \A k \in 1..Len(sampleDates) :
            LET i == EmittedAnchors[k]
            IN  /\ i - sequenceLength + 1 >= 0
                /\ i + forecastHorizon < Len(dates)
                /\ \A sym \in Range(symbols) :
                    /\ \A t \in (i - sequenceLength + 1)..i :
                          OpenAt(sym, t) # NaN /\ CloseAt(sym, t) # NaN
                    /\ \A o \in 1..forecastHorizon : CloseAt(sym, i + o) # NaN
                /\ Len(AllInputs[k]) = sequenceLength
                /\ \A t \in 1..sequenceLength :
                      Len(AllInputs[k][t]) = 2 * Len(symbols)
                /\ Len(AllLabels[k]) = Len(symbols) * forecastHorizon

\* a dataset of two tickers in which one anchor was emitted and another, with
\* history and future in range, was rejected for a missing value
C1_Witness ==
    /\ Emitted
    /\ Len(symbols) = 2
    /\ \E i \in 0..(Len(dates) - 1) :
        /\ i - sequenceLength + 1 >= 0
        /\ i + forecastHorizon < Len(dates)
        /\ \E sym \in Range(symbols) : CloseAt(sym, i + 1) = NaN
        /\ At(dates, i) \notin Range(sampleDates)

\* C2: the label vector of anchor i has length S*h and its entry s*h + (o-1)
\* (s-th ticker in sorted order, o in 1..h) is 1 iff close(i+o, s) > close(i, s),
\* 0 otherwise (equal closes included).
C2_LabelsAssetMajorStrict ==
    Emitted =>
        \A k \in 1..Len(sampleDates) :
            LET i == EmittedAnchors[k]
                S == Cardinality(Range(symbols))
                h == forecastHorizon
            IN  /\ Len(AllLabels[k]) = S * h
                /\ \A s \in 0..(S - 1), o \in 1..h :
                      At(AllLabels[k], s * h + (o - 1)) =
                          IF CloseAt(Ranked(s), i + o) > CloseAt(Ranked(s), i)
                          THEN 1 ELSE 0

\* two tickers, two offsets, a label vector that is not the same read
\* offset-major, and a label 0 from two equal closes
C2_Witness ==
    /\ Emitted
    /\ Len(symbols) = 2
    /\ forecastHorizon = 2
    /\ \E k \in 1..Len(sampleDates) :
        /\ At(AllLabels[k], 1) # At(AllLabels[k], 2)
        /\ \E s \in 0..1, o \in 1..2 :
              CloseAt(Ranked(s), EmittedAnchors[k] + o) = CloseAt(Ranked(s), EmittedAnchors[k])

\* the calendar day a stored date string denotes
DayOf(d) == d.day

\* C3: after a load that succeeded, the anchor dates of the emitted samples are
\* in non-decreasing chronological order, and no train anchor date is later than
\* a test anchor date.
C3_AnchorDatesChronological ==
    Emitted =>
        /\ \A k \in 1..(Len(sampleDates) - 1) :
              DayOf(sampleDates[k]) <= DayOf(sampleDates[k + 1])
        /\ \A a \in Range(sampleDatesTrain), b \in Range(sampleDatesTest) :
              DayOf(a) <= DayOf(b)

\* the anchors the claim names: history and future in range, nothing missing
ValidAnchors ==
    {i \in 0..(Len(dates) - 1) :
        /\ i - sequenceLength + 1 >= 0
        /\ i + forecastHorizon < Len(dates)
        /\ \A sym \in Range(symbols) :
            /\ \A t \in (i - sequenceLength + 1)..i :
                  OpenAt(sym, t) # NaN /\ CloseAt(sym, t) # NaN
            /\ \A o \in 1..forecastHorizon : CloseAt(sym, i + o) # NaN}

NothingMissing ==
    \A sym \in Range(symbols), t \in 0..(Len(dates) - 1) :
        OpenAt(sym, t) # NaN /\ CloseAt(sym, t) # NaN

\* C4: a prepareDataset call on loaded data emits one sample per valid anchor,
\* in increasing anchor order, and none for any other index (it throws only
\* when there is no valid anchor); with nothing missing the anchors are
\* seq-1 .. D-h-1, and D = 6, seq = 2, h = 1 gives the anchors 1..4.
C4_ExactlyTheValidAnchors ==
    (ret.op = "prepareDataset" /\ raw # NULL) =>
        IF ret.ok
        THEN /\ Range(EmittedAnchors) = ValidAnchors
             /\ \A k \in 1..(Len(sampleDates) - 1) :
                   EmittedAnchors[k] < EmittedAnchors[k + 1]
             /\ ret.value.samples = Len(sampleDates)
             /\ Len(AllInputs) = Len(sampleDates)
             /\ NothingMissing =>
                   /\ Range(EmittedAnchors) =
                        (sequenceLength - 1)..(Len(dates) - forecastHorizon - 1)
                   /\ Len(sampleDates) =
                        Len(dates) - sequenceLength - forecastHorizon + 1
             /\ (Len(dates) = 6 /\ sequenceLength = 2 /\ forecastHorizon = 1
                   /\ NothingMissing) => EmittedAnchors = <<1, 2, 3, 4>>
        ELSE ValidAnchors = {}

\* the worked example prepared: six dates, seq = 2, h = 1, anchors 1..4
C4_Witness ==
    /\ Emitted
    /\ csvRows = ScenarioFile
    /\ sequenceLength = 2
    /\ forecastHorizon = 1
    /\ EmittedAnchors = <<1, 2, 3, 4>>

\* C5: with p = trainSplitPercent in [0, 100] and n samples, trainCount is p*n/100
\* rounded to the nearest integer (halves up), 0 <= trainCount <= n; the train
\* subset is the first trainCount samples and the test subset the others, in
\* order; p = 0 leaves the train subset empty, p = 100 the test subset, and
\* n = 4 at p = 75 gives 3 and 1.
C5_ChronologicalSplit ==
    Emitted =>
        LET p == ret.arg
            n == ret.value.samples
            k == ret.value.trainSamples
            inputs == [j \in 1..n |->
                SampleInput(perSymbolSeries, normalizers, symbols,
                            EmittedAnchors[j], sequenceLength)]
            labels == [j \in 1..n |->
                SampleOutput(perSymbolSeries, symbols, EmittedAnchors[j],
                             forecastHorizon)]
        IN  /\ n = Len(sampleDates)
            /\ 0 <= k /\ k <= n
            /\ 200 * k <= 2 * p * n + 100
            /\ 2 * p * n + 100 < 200 * (k + 1)
            /\ ret.value.testSamples = n - k
            /\ X_train.data = SubSeq(inputs, 1, k)
            /\ X_test.data = SubSeq(inputs, k + 1, n)
            /\ y_train.data = SubSeq(labels, 1, k)
            /\ y_test.data = SubSeq(labels, k + 1, n)
            /\ X_train.shape[1] = k /\ y_train.shape[1] = k
            /\ X_test.shape[1] = n - k /\ y_test.shape[1] = n - k
            /\ sampleDatesTrain = SubSeq(sampleDates, 1, k)
            /\ sampleDatesTest = SubSeq(sampleDates, k + 1, n)
            /\ trainIndices = [start |-> 0, count |-> k]
            /\ testIndices = [start |-> k, count |-> n - k]
            /\ (p = 0 => k = 0)
            /\ (p = 100 => k = n)
            /\ (n = 4 /\ p = 75) => (k = 3 /\ n - k = 1)

\* four samples split at 75%: three train, one test
C5_Witness ==
    /\ Emitted
    /\ ret.arg = 75
    /\ ret.value.samples = 4
    /\ Len(X_train.data) = 3
    /\ Len(X_test.data) = 1

(***************************************************************************)
(* Properties of the evaluator (under SpecEval)                            *)
(***************************************************************************)
\* the last call was an evaluateTestSet that returned a result
Evaluated == ret.op = "evaluateTestSet" /\ ret.ok

\* P and T both have shape [N, S*h] for the declared S and h
ShapesAgree(a) == a.P.shape[2] = a.S * a.h /\ a.T.shape = a.P.shape

\* column s*h + t of a matrix row (s and t from 1)
Col(a, s, t) == (s - 1) * a.h + t

\* whether the prediction of sample n, asset s, horizon t matches the truth,
\* read off the [N, S*h] matrices by row and flat column
Hit(a, n, s, t) ==
    (IF a.P.data[n][Col(a, s, t)] > Threshold THEN 1 ELSE 0) = a.T.data[n][Col(a, s, t)]

\* C6: a prediction is binarised as 1 iff its probability is strictly above
\* 0.5, and perStockAcc[s] is the fraction, over all N samples and h horizons,
\* of the flat columns s*h .. s*h+h-1 whose binarised prediction equals the
\* truth: nothing outside the columns of asset s enters its accuracy.
C6_PerStockAccuracyOverOwnColumns ==
    (Evaluated /\ ShapesAgree(ret.arg)) =>
        LET a == ret.arg
            N == a.P.shape[1]
        IN  /\ \A n \in 1..N, s \in 1..a.S, t \in 1..a.h :
                   ret.value.predArr[n][s][t] =
                       (IF a.P.data[n][Col(a, s, t)] > Threshold THEN 1 ELSE 0)
            /\ Len(ret.value.perStockAcc) = a.S
            /\ \A s \in 1..a.S :
                   ret.value.perStockAcc[s] =
                       <<Cardinality({c \in (1..N) \X (1..a.h) : Hit(a, c[1], s, c[2])}),
                         N * a.h>>

\* two assets, a probability of exactly 0.5 against a truth of 0 (counted as a
\* correct "down"), and the two assets' accuracies differ
C6_Witness ==
    /\ Evaluated /\ ShapesAgree(ret.arg)
    /\ ret.arg.S = 2
    /\ \E n \in 1..ret.arg.P.shape[1], t \in 1..ret.arg.h :
           /\ ret.arg.P.data[n][Col(ret.arg, 1, t)] = Threshold
           /\ ret.arg.T.data[n][Col(ret.arg, 1, t)] = 0
           /\ ret.value.predArr[n][1][t] = 0
    /\ ret.value.perStockAcc[1][1] = ret.value.perStockAcc[1][2]
    /\ ret.value.perStockAcc[2][1] < ret.value.perStockAcc[2][2]

\* C7: overallAcc equals the arithmetic mean of the S values of perStockAcc.
\* Means are exact fractions <<sum, count>>; every asset has the same count,
\* so overall.sum / overall.count = (SUM_s perStock[s].sum / count) / S.
C7_OverallIsMeanOfPerStock ==
    (Evaluated /\ ShapesAgree(ret.arg)) =>
        LET ov == ret.value.overallAcc
            ps == ret.value.perStockAcc
            S == ret.arg.S
        IN  /\ \A s \in 1..S : ps[s][2] = ps[1][2]
            /\ ov[1] * ps[1][2] * S = SumSeq([s \in 1..S |-> ps[s][1]]) * ov[2]

\* two assets with different accuracies, neither 0 nor 1 overall
C7_Witness ==
    /\ Evaluated /\ ShapesAgree(ret.arg)
    /\ ret.arg.S = 2
    /\ ret.arg.h = 2
    /\ ret.value.perStockAcc[1][1] # ret.value.perStockAcc[2][1]
    /\ ret.value.overallAcc[1] > 0
    /\ ret.value.overallAcc[1] < ret.value.overallAcc[2]

\* C8: perStockTimeline has S entries, each of length N in sample order, and
\* perStockTimeline[s][n] = 1 iff strictly more than half of the h horizons of
\* asset s in sample n are predicted correctly (2 * correctCount > h).
C8_TimelineStrictMajority ==
    (Evaluated /\ ShapesAgree(ret.arg)) =>
        LET a == ret.arg
            N == a.P.shape[1]
            tl == ret.value.perStockTimeline
            correctCount(n, s) == Cardinality({t \in 1..a.h : Hit(a, n, s, t)})
        IN  /\ Len(tl) = a.S
            /\ \A s \in 1..a.S :
                   /\ Len(tl[s]) = N
                   /\ \A n \in 1..N :
                          tl[s][n] = (IF 2 * correctCount(n, s) > a.h THEN 1 ELSE 0)

\* h = 2 with exactly one horizon of an asset correct: marked incorrect
C8_Witness ==
    /\ Evaluated /\ ShapesAgree(ret.arg)
    /\ ret.arg.h = 2
    /\ \E s \in 1..ret.arg.S :
           /\ Hit(ret.arg, 1, s, 1)
           /\ ~Hit(ret.arg, 1, s, 2)
           /\ ret.value.perStockTimeline[s][1] = 0

\* C9: with a model built, evaluateTestSet fails exactly when P and T do not
\* both have shape [N, S*h] for the declared S and h.
C9_FailsExactlyOnShapeMismatch ==
    (ret.op = "evaluateTestSet" /\ model # NULL) =>
        (ret.ok <=> ShapesAgree(ret.arg))

(***************************************************************************)
(* Properties of the life cycle (under SpecLife)                           *)
(***************************************************************************)
\* C10: in any sequence of calls, prepareDataset fails whenever no load has
\* succeeded since construction or the last dispose(), getTensors fails
\* whenever no dataset has been prepared since construction or the last
\* dispose(), and predict / evaluateTestSet fail whenever the model is not
\* built; each of these failing calls leaves every loader field unchanged.
C10_FailsBeforeReady ==
    [][/\ (ret'.op = "prepareDataset" /\ ~history.loaded) =>
              (~ret'.ok /\ UNCHANGED loaderVars)
       /\ (ret'.op = "getTensors" /\ ~history.prepared) =>
              (~ret'.ok /\ UNCHANGED loaderVars)
       /\ (ret'.op \in {"predict", "evaluateTestSet"} /\ model = NULL) =>
              (~ret'.ok /\ UNCHANGED loaderVars)]_vars

\* a prepareDataset refused after a load, a prepared dataset and a dispose():
\* the series of the disposed load are still stored, the data are not
C10_Witness ==
    /\ ret.op = "prepareDataset"
    /\ ~ret.ok
    /\ ~history.loaded
    /\ symbols # <<>>
    /\ sampleDates # UNDEFINED
    /\ X_train = NULL
    /\ raw = NULL

\* the tensors allocated by the most recent successful prepareDataset
LatestDatasetIds == IF tfNext = 0 THEN {} ELSE (tfNext - 5)..tfNext

\* C11: after any sequence of load / prepareDataset / dispose calls the only
\* dataset tensors still alive are those of the most recent successful
\* prepareDataset, and none is alive once dispose() has run and no dataset
\* has been prepared since.
C11_OnlyLatestDatasetAlive ==
    /\ tfLive \subseteq LatestDatasetIds
    /\ ~history.prepared => tfLive = {}

(***************************************************************************)
(* Properties of a load (under Spec)                                       *)
(***************************************************************************)
\* entry i of the series of sym is the date dates[i] with the open/close of a
\* surviving row for (sym, dates[i]), or NaN/NaN when there is no such row
AlignedEntry(rows, sym, i) ==
    LET e == perSymbolSeries[sym][i]
        hits == {k \in 1..Len(rows) : rows[k].Symbol = sym /\ rows[k].Date = dates[i]}
    IN  /\ e.date = dates[i]
        /\ IF hits = {} THEN e.open = NaN /\ e.close = NaN
           ELSE \E k \in hits : e.open = rows[k].Open /\ e.close = rows[k].Close

\* C12: after a successful loadFromCSVText, symbols is sorted without
\* duplicates, dates is in chronological order without duplicates, and every
\* symbol's series has exactly D = Len(dates) entries, entry i carrying
\* dates[i] and the open/close of a surviving input row for (symbol, dates[i])
\* if there is one, NaN/NaN otherwise.
C12_AlignedSeriesAfterLoad ==
    raw # NULL =>
        /\ \A i, j \in 1..Len(symbols) : i < j => symbols[i] < symbols[j]
        /\ \A i, j \in 1..Len(dates) :
               i < j => (dates[i] # dates[j] /\ DayOf(dates[i]) <= DayOf(dates[j]))
        /\ DOMAIN perSymbolSeries = Range(symbols)
        /\ \E tz \in Zones :
               LET rows == NormalizeRows(SelectSeq(csvRows, ValidRow), tz)
               IN  \A sym \in Range(symbols) :
                       /\ Len(perSymbolSeries[sym]) = Len(dates)
                       /\ \A i \in 1..Len(dates) : AlignedEntry(rows, sym, i)

(***************************************************************************)
(* Failure of prepareDataset (under Spec)                                  *)
(***************************************************************************)
\* C13: on loaded data, prepareDataset throws if and only if no anchor index
\* of the date axis passes the history/future bounds and the missing-value
\* check (in particular whenever L + h > D); when an anchor survives it
\* returns metadata with samples >= 1.
C13_FailsIffNoAnchorSurvives ==
    (ret.op = "prepareDataset" /\ raw # NULL) =>
        /\ ~ret.ok <=> ValidAnchors = {}
        /\ ret.ok => ret.value.samples >= 1
        /\ sequenceLength + forecastHorizon > Len(dates) => ~ret.ok

\* refused although the date axis is long enough for a window: every
\* candidate window touches a missing value
C13_Witness ==
    /\ ret.op = "prepareDataset"
    /\ raw # NULL
    /\ ~ret.ok
    /\ sequenceLength + forecastHorizon <= Len(dates)
    /\ Len(symbols) = 2
    /\ X_train = NULL

(***************************************************************************)
(* What getTensors hands out (under SpecLife)                              *)
(***************************************************************************)
\* C14: after any sequence of load / prepareDataset / dispose calls, whenever
\* getTensors succeeds, the symbols it returns are those the tensors were
\* built for (y has Len(symbols) * h columns, X has 2 * Len(symbols)
\* features) and sampleDatesTest has one entry per row of X_test.
C14_TensorsMatchLoadedData ==
    (ret.op = "getTensors" /\ ret.ok) =>
        LET v == ret.value
            S == Len(v.symbols)
        IN  /\ v.y_train.shape[2] = S * forecastHorizon
            /\ v.y_test.shape[2] = S * forecastHorizon
            /\ v.X_train.shape[3] = 2 * S
            /\ v.X_test.shape[3] = 2 * S
            /\ Len(v.sampleDatesTest) = v.X_test.shape[1]

(***************************************************************************)
(* The predict handler (under SpecApp)                                     *)
(***************************************************************************)
\* C15: when the predict handler has run on a prepared dataset and its
\* evaluateTestSet call returned a result, the date labels it hands to the
\* two renderers are the loader's sampleDatesTest, one anchor date per test
\* sample, and the handler ends with 'Evaluation complete'.
C15_PredictHandlerCompletes ==
    (ret.op = "evaluateTestSet" /\ ret.ok /\ preparedMeta # NULL) =>
        /\ Get(preparedMeta, "sampleDatesTest") # UNDEFINED
        /\ Get(preparedMeta, "sampleDatesTest") = tensors.sampleDatesTest
        /\ Len(tensors.sampleDatesTest) = tensors.X_test.shape[1]
        /\ progress = "Evaluation complete"

====
